---- MODULE Spec2Model ----
(***************************************************************************)
(* Model of the parametric surface tessellation (src/src/surface.rs, and   *)
(* the earlier snapshot src/src/main.rs) and of the Mero rational-function *)
(* evaluator.                                                              *)
(*                                                                         *)
(* f32 values are modelled as exact extended numbers: a record             *)
(* [n, d, rt] stands for (n / d) * sqrt(rt) when d > 0 (rt is a squarefree *)
(* positive integer, 1 for a rational), for +inf or -inf when d = 0 and    *)
(* n = 1 or -1, and for NaN when d = 0 and n = 0.  rt > 1 only occurs in   *)
(* results of square roots (norm, normalize); the code applies no          *)
(* arithmetic to those.  Rounding, overflow and underflow of f32 are not   *)
(* modelled: the inputs are small rationals.  Vertex indices are u32 in    *)
(* the code and stay far below 2^32 for the grids considered.              *)
(***************************************************************************)
EXTENDS Integers, Sequences, FiniteSets, TLC

\* ------------------------------------------------------------------ bounds
MaxCount == 3
MaxPoints == 2

\* ------------------------------------------------------- integer helpers
Abs(x) == IF x < 0 THEN -x ELSE x

Sgn(x) == IF x < 0 THEN -1 ELSE IF x > 0 THEN 1 ELSE 0

RECURSIVE GCD(_, _)
GCD(a, b) == IF b = 0 THEN a ELSE GCD(b, a % b)

RECURSIVE ISqrtIn(_, _, _)
ISqrtIn(x, lo, hi) ==
    IF lo >= hi THEN lo
    ELSE LET mid == (lo + hi + 1) \div 2
         IN  IF mid * mid <= x THEN ISqrtIn(x, mid, hi) ELSE ISqrtIn(x, lo, mid - 1)

ISqrt(x) == ISqrtIn(x, 0, IF x < 46340 THEN x ELSE 46340)

\* the largest q with q * q dividing s (s > 0)
SquarePart(s) ==
    LET qs == { q \in 1..ISqrt(s) : s % (q * q) = 0 }
    IN  CHOOSE q \in qs : \A r \in qs : r <= q

\* ------------------------------------------------------------ f32 values
FNorm(n, d) ==
    IF d = 0 THEN [n |-> Sgn(n), d |-> 0, rt |-> 1]
    ELSE LET g == GCD(Abs(n), Abs(d))
         IN  [n |-> (Sgn(d) * n) \div g, d |-> Abs(d) \div g, rt |-> 1]

FInt(k) == FNorm(k, 1)

NaN == FNorm(0, 0)

PosInf == FNorm(1, 0)

IsNaN(a) == a.d = 0 /\ a.n = 0

FNeg(a) == [a EXCEPT !.n = -a.n]

FAdd(a, b) ==
    IF IsNaN(a) \/ IsNaN(b) THEN NaN
    ELSE IF a.d = 0 /\ b.d = 0 THEN (IF a.n = b.n THEN a ELSE NaN)
    ELSE IF a.d = 0 THEN a
    ELSE IF b.d = 0 THEN b
    ELSE LET g == GCD(a.d, b.d)
         IN  FNorm(a.n * (b.d \div g) + b.n * (a.d \div g), (a.d \div g) * b.d)

FSub(a, b) == FAdd(a, FNeg(b))

FMul(a, b) ==
    IF a.d = 0 \/ b.d = 0 THEN FNorm(a.n * b.n, 0)
    ELSE LET g1 == GCD(Abs(a.n), b.d)
             g2 == GCD(Abs(b.n), a.d)
         IN  FNorm((a.n \div g1) * (b.n \div g2), (a.d \div g2) * (b.d \div g1))

FInv(b) ==
    IF IsNaN(b) THEN NaN
    ELSE IF b.n = 0 THEN PosInf
    ELSE FNorm(Sgn(b.n) * b.d, Abs(b.n))

FDiv(a, b) == FMul(a, FInv(b))

FLt(a, b) ==
    IF a.d = 0 /\ b.d = 0 THEN a.n < b.n ELSE a.n * b.d < b.n * a.d

\* f32::min returns the other operand when one of them is NaN
FMin(a, b) ==
    IF IsNaN(a) THEN b
    ELSE IF IsNaN(b) THEN a
    ELSE IF FLt(b, a) THEN b ELSE a

\* c * sqrt(s) for a finite rational c and an integer s > 0
FRoot(c, s) ==
    LET q == SquarePart(s)
    IN  [FNorm(c.n * q, c.d) EXCEPT !.rt = IF c.n = 0 THEN 1 ELSE s \div (q * q)]

\* f32::hypot, used by Complex::norm
FHypot(a, b) ==
    IF (a.d = 0 /\ a.n # 0) \/ (b.d = 0 /\ b.n # 0) THEN PosInf
    ELSE IF IsNaN(a) \/ IsNaN(b) THEN NaN
    ELSE LET L  == (a.d \div GCD(a.d, b.d)) * b.d
             A  == a.n * (L \div a.d)
             B  == b.n * (L \div b.d)
             g  == GCD(Abs(A), Abs(B))
         IN  IF g = 0 THEN FInt(0)
             ELSE FRoot(FNorm(g, L), (A \div g) * (A \div g) + (B \div g) * (B \div g))

\* ---------------------------------------------------------- glam vectors
Vec2(x, y) == <<x, y>>

Vec3(x, y, z) == <<x, y, z>>

V2Add(a, b) == <<FAdd(a[1], b[1]), FAdd(a[2], b[2])>>

V2Sub(a, b) == <<FSub(a[1], b[1]), FSub(a[2], b[2])>>

V3Add(a, b) == <<FAdd(a[1], b[1]), FAdd(a[2], b[2]), FAdd(a[3], b[3])>>

V3Sub(a, b) == <<FSub(a[1], b[1]), FSub(a[2], b[2]), FSub(a[3], b[3])>>

V3Cross(a, b) ==
    <<FSub(FMul(a[2], b[3]), FMul(a[3], b[2])),
      FSub(FMul(a[3], b[1]), FMul(a[1], b[3])),
      FSub(FMul(a[1], b[2]), FMul(a[2], b[1]))>>

V3Zero == <<FInt(0), FInt(0), FInt(0)>>

V3NaN == <<NaN, NaN, NaN>>

\* Vec3::normalize is self * (1 / length): a zero vector gives 0 * inf = NaN
\* in every component; there is no zero-length guard.
V3Normalize(v) ==
    IF \E k \in 1..3 : IsNaN(v[k]) THEN V3NaN
    ELSE IF \E k \in 1..3 : v[k].d = 0
         THEN [k \in 1..3 |-> IF v[k].d = 0 THEN NaN ELSE FInt(0)]
    ELSE IF \A k \in 1..3 : v[k].n = 0 THEN V3NaN
    ELSE LET l12 == (v[1].d \div GCD(v[1].d, v[2].d)) * v[2].d
             L   == (l12 \div GCD(l12, v[3].d)) * v[3].d
             w   == [k \in 1..3 |-> v[k].n * (L \div v[k].d)]
             g   == GCD(GCD(Abs(w[1]), Abs(w[2])), Abs(w[3]))
             u   == [k \in 1..3 |-> w[k] \div g]
             s   == u[1] * u[1] + u[2] * u[2] + u[3] * u[3]
         IN  [k \in 1..3 |-> FRoot(FNorm(u[k], s), s)]

\* ------------------------------------------------------ parametric maps
\* surface.rs: plane(z) = z.extend(0.0)
plane(z) == Vec3(z[1], z[2], FInt(0))

\* surface.rs: planar(z, f) = z.extend(f(z)); the height functions used here
\* are "zero" (z -> 0) and "x" (z -> z[0])
planar(z, h) == Vec3(z[1], z[2], IF h = "x" THEN z[1] ELSE FInt(0))

\* The closures F: Fn(Vec2) -> Vec3 handed to parametric_surface:
\* plane, |z| planar(z, x), and the constant closure |_| Vec3::zero()
Maps == {"plane", "ramp", "point"}

ApplyMap(f, z) ==
    IF f = "plane" THEN plane(z)
    ELSE IF f = "ramp" THEN planar(z, "x")
    ELSE V3Zero

\* ------------------------------------------------------------ surface.rs
triangle_normal(a, b, c) == V3Cross(V3Sub(b, a), V3Sub(c, a))

\* surface.rs line 79-80: the normal pushed for a node (sum is kept beside it)
ps_push(o, sum) == [position |-> o, sum |-> sum, normal |-> V3Normalize(sum)]

\* surface.rs lines 75-79: the four cross products about o and their sum
ps_normal(o, a, b, c, d) ==
    LET norm1 == triangle_normal(o, a, b)
        norm2 == triangle_normal(o, b, c)
        norm3 == triangle_normal(o, c, d)
        norm4 == triangle_normal(o, d, a)
    IN  ps_push(o, V3Add(V3Add(V3Add(norm1, norm2), norm3), norm4))

\* surface.rs lines 67-74: f at z and at its four eps-neighbours
ps_probe(f, z, x_eps, y_eps) ==
    ps_normal(ApplyMap(f, z),
              ApplyMap(f, V2Add(z, x_eps)),
              ApplyMap(f, V2Add(z, y_eps)),
              ApplyMap(f, V2Sub(z, x_eps)),
              ApplyMap(f, V2Sub(z, y_eps)))

\* one iteration of the loop body, surface.rs lines 64-80
ps_node(c, i, j) ==
    LET x == FAdd(c.start[1], FMul(FInt(i), c.delta_x))
        y == FAdd(c.start[2], FMul(FInt(j), c.delta_y))
    IN  ps_probe(c.f, Vec2(x, y), Vec2(c.eps, FInt(0)), Vec2(FInt(0), c.eps))

RECURSIVE ps_loop_j(_, _, _)
ps_loop_j(c, i, j) ==
    IF j > c.count[2] THEN <<>>
    ELSE <<ps_node(c, i, j)>> \o ps_loop_j(c, i, j + 1)

RECURSIVE ps_loop_i(_, _)
ps_loop_i(c, i) ==
    IF i > c.count[1] THEN <<>>
    ELSE ps_loop_j(c, i, 0) \o ps_loop_i(c, i + 1)

\* mutant: the corner formulas of main.rs (row stride on i for the "top" row)
ps_cell_main_corners(count, i, j) ==
    LET bottom_left  == i * (count[2] + 1) + j
        bottom_right == i * (count[2] + 1) + j + 1
        top_left     == (i + 1) * (count[2] + 1) + j
        top_right    == (i + 1) * (count[2] + 1) + j + 1
    IN  << <<top_left, bottom_left, top_right>>,
           <<top_right, bottom_left, bottom_right>> >>

\* mutant: the row stride taken from count[0] instead of count[1]
ps_cell_wrong_stride(count, i, j) ==
    LET bottom_left  == i * (count[1] + 1) + j
        top_left     == i * (count[1] + 1) + j + 1
        bottom_right == (i + 1) * (count[1] + 1) + j
        top_right    == (i + 1) * (count[1] + 1) + j + 1
    IN  << <<top_left, bottom_left, top_right>>,
           <<top_right, bottom_left, bottom_right>> >>

\* mutant: the second triangle wound the other way
ps_cell_flipped(count, i, j) ==
    LET bottom_left  == i * (count[2] + 1) + j
        top_left     == i * (count[2] + 1) + j + 1
        bottom_right == (i + 1) * (count[2] + 1) + j
        top_right    == (i + 1) * (count[2] + 1) + j + 1
    IN  << <<top_left, bottom_left, top_right>>,
           <<top_right, bottom_right, bottom_left>> >>

\* the two triangles of cell (i, j), surface.rs lines 86-91
ps_cell(count, i, j) ==
    LET bottom_left  == i * (count[2] + 1) + j
        top_left     == i * (count[2] + 1) + j + 1
        bottom_right == (i + 1) * (count[2] + 1) + j
        top_right    == (i + 1) * (count[2] + 1) + j + 1
    IN  << <<top_left, bottom_left, top_right>>,
           <<top_right, bottom_left, bottom_right>> >>

RECURSIVE tri_loop_j(_, _, _)
tri_loop_j(count, i, j) ==
    IF j >= count[2] THEN <<>>
    ELSE ps_cell(count, i, j) \o tri_loop_j(count, i, j + 1)

RECURSIVE tri_loop_i(_, _)
tri_loop_i(count, i) ==
    IF i >= count[1] THEN <<>>
    ELSE tri_loop_j(count, i, 0) \o tri_loop_i(count, i + 1)

\* surface.rs lines 57-60: the grid steps and the probe distance
ps_steps(start, count, f, delta_x, delta_y) ==
    [start |-> start, count |-> count, f |-> f,
     delta_x |-> delta_x, delta_y |-> delta_y,
     eps |-> FDiv(FMin(delta_x, delta_y), FInt(1000))]

ps_context(start, diff, count, f) ==
    ps_steps(start, count, f, FDiv(diff[1], FInt(count[1])), FDiv(diff[2], FInt(count[2])))

\* surface.rs lines 95-102
Surface(start, end, count, nodes, triangles) ==
    [start     |-> start,
     end       |-> end,
     count     |-> count,
     positions |-> [k \in 1..Len(nodes) |-> nodes[k].position],
     normals   |-> [k \in 1..Len(nodes) |-> nodes[k].normal],
     triangles |-> triangles]

\* parametric_surface has return type Surface: there is no Result, no panic
\* and no validation of start, end or count.
parametric_surface(start, end, count, f) ==
    Surface(start, end, count,
            ps_loop_i(ps_context(start, V2Sub(end, start), count, f), 0),
            tri_loop_i(count, 0))

NodeSums(nodes) == [k \in 1..Len(nodes) |-> nodes[k].sum]

\* the sums of the four cross products, node by node (the value normalized
\* at surface.rs line 79)
normal_sums(start, end, count, f) ==
    NodeSums(ps_loop_i(ps_context(start, V2Sub(end, start), count, f), 0))

\* ------------------------------------------------- complex numbers, Mero
Complex(re, im) == [re |-> re, im |-> im]

CSub(a, b) == Complex(FSub(a.re, b.re), FSub(a.im, b.im))

CMul(a, b) ==
    Complex(FSub(FMul(a.re, b.re), FMul(a.im, b.im)),
            FAdd(FMul(a.re, b.im), FMul(a.im, b.re)))

\* num_complex division: (a * conj(b)) / |b|^2, componentwise; a zero
\* divisor gives 0/0 = NaN in both components
CDiv(a, b) ==
    LET norm_sqr == FAdd(FMul(b.re, b.re), FMul(b.im, b.im))
        re       == FAdd(FMul(a.re, b.re), FMul(a.im, b.im))
        im       == FSub(FMul(a.im, b.re), FMul(a.re, b.im))
    IN  Complex(FDiv(re, norm_sqr), FDiv(im, norm_sqr))

to_complex(z) == Complex(z[1], z[2])

from_complex(z) == Vec2(z.re, z.im)

\* phi and frac (surface.rs lines 202-203) are computed and not used
to_uv(z) ==
    LET r == FHypot(z.re, z.im)
    IN  Vec2(FInt(0), r)

identity(z) == to_uv(to_complex(z))

\* mutant: the factor left at Complex::default()
Mero_new_zero_factor ==
    [factor |-> Complex(FInt(0), FInt(0)), zeros |-> <<>>, poles |-> <<>>]

Mero_new == [factor |-> Complex(FInt(1), FInt(0)), zeros |-> <<>>, poles |-> <<>>]

RECURSIVE poly_zeros(_, _, _, _)
poly_zeros(val, zeros, k, z) ==
    IF k > Len(zeros) THEN val
    ELSE poly_zeros(CMul(val, CSub(z, zeros[k])), zeros, k + 1, z)

RECURSIVE poly_poles(_, _, _, _)
poly_poles(val, poles, k, z) ==
    IF k > Len(poles) THEN val
    ELSE LET one == Complex(FInt(1), FInt(0))
         IN  poly_poles(CMul(val, CDiv(one, CSub(z, poles[k]))), poles, k + 1, z)

\* mutant: the first zero is skipped
poly_val_skip_first(ps, z) ==
    LET zc == to_complex(z)
    IN  poly_poles(poly_zeros(ps.factor, ps.zeros, 2, zc), ps.poles, 1, zc)

\* the value accumulated by poly before it is encoded (surface.rs 228-236)
poly_val(ps, z) ==
    LET zc == to_complex(z)
    IN  poly_poles(poly_zeros(ps.factor, ps.zeros, 1, zc), ps.poles, 1, zc)

poly(ps, z) == to_uv(poly_val(ps, z))

\* The closures F: Fn(Vec2) -> Vec2 handed to the mesh builders: identity,
\* and |z| poly(&mero, z)
UvIdentity == [kind |-> "identity", mero |-> Mero_new]

UvPoly(m) == [kind |-> "poly", mero |-> m]

ApplyUv(uvf, z) == IF uvf.kind = "poly" THEN poly(uvf.mero, z) ELSE identity(z)

\* ------------------------------------------------- surface.rs: the meshes
RECURSIVE uv_loop_j(_, _, _)
uv_loop_j(c, i, j) ==
    IF j > c.count[2] THEN <<>>
    ELSE LET x == FAdd(c.start[1], FMul(FInt(i), c.delta_x))
             y == FAdd(c.start[2], FMul(FInt(j), c.delta_y))
         IN  <<ApplyUv(c.f, Vec2(x, y))>> \o uv_loop_j(c, i, j + 1)

RECURSIVE uv_loop_i(_, _)
uv_loop_i(c, i) ==
    IF i > c.count[1] THEN <<>>
    ELSE uv_loop_j(c, i, 0) \o uv_loop_i(c, i + 1)

uv_steps(surface, count, f, diff) ==
    [start |-> surface.start, count |-> count, f |-> f,
     delta_x |-> FDiv(diff[1], FInt(surface.count[1])),
     delta_y |-> FDiv(diff[2], FInt(surface.count[2]))]

\* mutant: exclusive ranges 0..count in place of 0..=count
compute_uvs_exclusive(surface, f) ==
    uv_loop_i(uv_steps(surface, <<surface.count[1] - 1, surface.count[2] - 1>>, f,
                       V2Sub(surface.end, surface.start)), 0)

compute_uvs(surface, f) ==
    uv_loop_i(uv_steps(surface, surface.count, f, V2Sub(surface.end, surface.start)), 0)

RECURSIVE solid_indices(_, _)
solid_indices(triangles, k) ==
    IF k > Len(triangles) THEN <<>>
    ELSE triangles[k] \o solid_indices(triangles, k + 1)

RECURSIVE wireframe_indices(_, _)
wireframe_indices(triangles, k) ==
    IF k > Len(triangles) THEN <<>>
    ELSE LET t == triangles[k]
         IN  <<t[1], t[2], t[2], t[3], t[3], t[1]>> \o wireframe_indices(triangles, k + 1)

RECURSIVE point_cloud_indices(_, _)
point_cloud_indices(triangles, k) ==
    IF k > Len(triangles) THEN <<>>
    ELSE LET t == triangles[k]
         IN  <<t[1], t[2], t[3]>> \o point_cloud_indices(triangles, k + 1)

Mesh(topology, positions, normals, uvs, indices) ==
    [primitive_topology |-> topology, positions |-> positions,
     normals |-> normals, uvs |-> uvs, indices |-> indices]

\* mutant: the normals taken from the positions
surface_to_solid_normals_from_positions(surface, f) ==
    Mesh("TriangleList", surface.positions, surface.positions,
         compute_uvs(surface, f), solid_indices(surface.triangles, 1))

surface_to_solid(surface, f) ==
    Mesh("TriangleList", surface.positions, surface.normals,
         compute_uvs(surface, f), solid_indices(surface.triangles, 1))

\* mutant: the index loop of surface_to_solid, one index per corner
surface_to_wireframe_corner_indices(surface, f) ==
    Mesh("LineList", surface.positions, surface.normals,
         compute_uvs(surface, f), solid_indices(surface.triangles, 1))

surface_to_wireframe(surface, f) ==
    Mesh("LineList", surface.positions, surface.normals,
         compute_uvs(surface, f), wireframe_indices(surface.triangles, 1))

surface_to_point_cloud(surface, f) ==
    Mesh("PointList", surface.positions, surface.normals,
         compute_uvs(surface, f), point_cloud_indices(surface.triangles, 1))

\* --------------------------------------------------------------- main.rs
main_cross(a, b, c) == V3Cross(V3Sub(b, a), V3Sub(c, a))

\* main.rs lines 119-124
main_normal(o, a, b, c, d) ==
    LET norm1 == main_cross(o, a, b)
        norm2 == main_cross(o, b, c)
        norm3 == main_cross(o, c, d)
        norm4 == main_cross(o, d, a)
    IN  [position |-> o,
         normal |-> V3Normalize(V3Add(V3Add(V3Add(norm1, norm2), norm3), norm4))]

\* main.rs lines 113-118
main_probe(f, x, y, delta) ==
    main_normal(ApplyMap(f, Vec2(x, y)),
                ApplyMap(f, Vec2(FAdd(x, delta), y)),
                ApplyMap(f, Vec2(x, FAdd(y, delta))),
                ApplyMap(f, Vec2(FSub(x, delta), y)),
                ApplyMap(f, Vec2(x, FSub(y, delta))))

main_steps(f, i, j, delta) == main_probe(f, FMul(FInt(j), delta), FMul(FInt(i), delta), delta)

\* one iteration of the loop body, main.rs lines 111-125
main_node(count, f, i, j) == main_steps(f, i, j, FDiv(FInt(1), FInt(count)))

RECURSIVE main_loop_j(_, _, _, _)
main_loop_j(count, f, i, j) ==
    IF j > count THEN <<>>
    ELSE <<main_node(count, f, i, j)>> \o main_loop_j(count, f, i, j + 1)

RECURSIVE main_loop_i(_, _, _)
main_loop_i(count, f, i) ==
    IF i > count THEN <<>>
    ELSE main_loop_j(count, f, i, 0) \o main_loop_i(count, f, i + 1)

\* the two triangles of cell (i, j), main.rs lines 131-136
main_cell(count, i, j) ==
    LET bottom_left  == i * (count + 1) + j
        bottom_right == i * (count + 1) + j + 1
        top_left     == (i + 1) * (count + 1) + j
        top_right    == (i + 1) * (count + 1) + j + 1
    IN  << <<top_left, bottom_left, top_right>>,
           <<top_right, bottom_left, bottom_right>> >>

RECURSIVE main_tri_loop_j(_, _, _)
main_tri_loop_j(count, i, j) ==
    IF j >= count THEN <<>>
    ELSE main_cell(count, i, j) \o main_tri_loop_j(count, i, j + 1)

RECURSIVE main_tri_loop_i(_, _)
main_tri_loop_i(count, i) ==
    IF i >= count THEN <<>>
    ELSE main_tri_loop_j(count, i, 0) \o main_tri_loop_i(count, i + 1)

\* main.rs lines 140-144
main_Surface(nodes, triangles) ==
    [positions |-> [k \in 1..Len(nodes) |-> nodes[k].position],
     normals   |-> [k \in 1..Len(nodes) |-> nodes[k].normal],
     triangles |-> triangles]

main_parametric_surface(count, f) ==
    main_Surface(main_loop_i(count, f, 0), main_tri_loop_i(count, 0))

main_zero_uvs(positions) == [k \in 1..Len(positions) |-> Vec2(FInt(0), FInt(0))]

RECURSIVE main_solid_indices(_, _)
main_solid_indices(triangles, k) ==
    IF k > Len(triangles) THEN <<>>
    ELSE triangles[k] \o main_solid_indices(triangles, k + 1)

RECURSIVE main_wireframe_indices(_, _)
main_wireframe_indices(triangles, k) ==
    IF k > Len(triangles) THEN <<>>
    ELSE LET t == triangles[k]
         IN  <<t[1], t[2], t[2], t[3], t[3], t[1]>>
                 \o main_wireframe_indices(triangles, k + 1)

main_surface_to_solid(surface) ==
    Mesh("TriangleList", surface.positions, surface.normals,
         main_zero_uvs(surface.positions), main_solid_indices(surface.triangles, 1))

main_surface_to_wireframe(surface) ==
    Mesh("LineList", surface.positions, surface.normals,
         main_zero_uvs(surface.positions), main_wireframe_indices(surface.triangles, 1))

\* ---------------------------------------------------------- state machine
VARIABLES app, args, pc, surface, mero, solid, wireframe, point_cloud

vars == <<app, args, pc, surface, mero, solid, wireframe, point_cloud>>

V2Int(x, y) == Vec2(FInt(x), FInt(y))

\* parameter rectangles <<start, end>> handed to parametric_surface: proper,
\* reversed, degenerate in x, and degenerate in both components
Domains ==
    { <<V2Int(0, 0), V2Int(1, 1)>>, <<V2Int(1, 0), V2Int(0, 2)>>,
      <<V2Int(0, 0), V2Int(0, 1)>>, <<V2Int(1, 1), V2Int(1, 1)>> }

\* domain points at which zeros and poles are placed
MeroPoints == { Complex(FInt(0), FInt(0)), Complex(FInt(1), FInt(1)) }

\* points at which the evaluator is probed
EvalPoints == { V2Int(0, 0), V2Int(1, 1), V2Int(1, 0), V2Int(-1, 2) }

EmptySurface ==
    [start |-> V2Int(0, 0), end |-> V2Int(0, 0), count |-> <<0, 0>>,
     positions |-> <<>>, normals |-> <<>>, triangles |-> <<>>]

NoMesh == Mesh("None", <<>>, <<>>, <<>>, <<>>)

SurfaceArgs ==
    { [start |-> d[1], end |-> d[2], count |-> <<c0, c1>>, f |-> f] :
        d \in Domains, c0 \in 0..MaxCount, c1 \in 0..MaxCount, f \in Maps }

MainArgs ==
    { [start |-> V2Int(0, 0), end |-> V2Int(1, 1), count |-> <<c, c>>, f |-> f] :
        c \in 1..MaxCount, f \in Maps }

Init ==
    /\ app \in {"surface", "main"}
    /\ args \in (IF app = "surface" THEN SurfaceArgs ELSE MainArgs)
    /\ pc = "setup"
    /\ surface = EmptySurface
    /\ mero = Mero_new
    /\ solid = NoMesh
    /\ wireframe = NoMesh
    /\ point_cloud = NoMesh

\* surface.rs: the surface is sampled once
Sample ==
    /\ app = "surface"
    /\ pc = "setup"
    /\ surface' = parametric_surface(args.start, args.end, args.count, args.f)
    /\ pc' = "run"
    /\ UNCHANGED <<app, args, mero, solid, wireframe, point_cloud>>

\* surface.rs: (re-)assembly of the solid mesh from the surface and the Mero
Solid ==
    /\ app = "surface"
    /\ pc = "run"
    /\ solid' = surface_to_solid(surface, UvPoly(mero))
    /\ UNCHANGED <<app, args, pc, surface, mero, wireframe, point_cloud>>

\* the two other views are derived once from the sampled surface
Wireframe ==
    /\ app = "surface"
    /\ pc = "run"
    /\ wireframe = NoMesh
    /\ wireframe' = surface_to_wireframe(surface, UvIdentity)
    /\ UNCHANGED <<app, args, pc, surface, mero, solid, point_cloud>>

PointCloud ==
    /\ app = "surface"
    /\ pc = "run"
    /\ point_cloud = NoMesh
    /\ point_cloud' = surface_to_point_cloud(surface, UvIdentity)
    /\ UNCHANGED <<app, args, pc, surface, mero, solid, wireframe>>

\* a zero is appended to the Mero (pub field zeros)
AddZero ==
    /\ app = "surface"
    /\ pc = "run"
    /\ Len(mero.zeros) + Len(mero.poles) < MaxPoints
    /\ \E p \in MeroPoints : mero' = [mero EXCEPT !.zeros = Append(@, p)]
    /\ UNCHANGED <<app, args, pc, surface, solid, wireframe, point_cloud>>

\* a pole is appended to the Mero (pub field poles)
AddPole ==
    /\ app = "surface"
    /\ pc = "run"
    /\ Len(mero.zeros) + Len(mero.poles) < MaxPoints
    /\ \E p \in MeroPoints : mero' = [mero EXCEPT !.poles = Append(@, p)]
    /\ UNCHANGED <<app, args, pc, surface, solid, wireframe, point_cloud>>

\* main.rs lines 192-195: the meshes built from the sampled surface
main_built(s) ==
    /\ surface' = [EmptySurface EXCEPT !.end = args.end, !.count = args.count,
                       !.positions = s.positions, !.normals = s.normals,
                       !.triangles = s.triangles]
    /\ solid' = main_surface_to_solid(s)
    /\ wireframe' = main_surface_to_wireframe(s)

\* main.rs: setup samples the surface and builds the solid and the wireframe
main_setup ==
    /\ app = "main"
    /\ pc = "setup"
    /\ main_built(main_parametric_surface(args.count[1], args.f))
    /\ pc' = "run"
    /\ UNCHANGED <<app, args, mero, point_cloud>>

\* Sampling and mesh derivation, over every parameter rectangle, count and map
Next ==
    \/ Sample
    \/ Solid
    \/ Wireframe
    \/ PointCloud
    \/ main_setup

Spec == Init /\ [][Next]_vars

\* Mero mutations interleaved with re-assemblies of the solid mesh, over the
\* surfaces of the map plane on a non-degenerate rectangle from the origin
\* and a grid with cells
MeroInit ==
    /\ Init
    /\ app = "surface"
    /\ args.f = "plane"
    /\ args.start = V2Int(0, 0)
    /\ args.start[1] # args.end[1]
    /\ args.start[2] # args.end[2]
    /\ args.count[1] >= 1
    /\ args.count[2] >= 1

MeroNext ==
    \/ Sample
    \/ Solid
    \/ AddZero
    \/ AddPole

MeroSpec == MeroInit /\ [][MeroNext]_vars

\* ================================================================ claims
Sampled == app = "surface" /\ pc = "run"

Rows == surface.count[1]

Cols == surface.count[2]

SeqSet(t) == { t[k] : k \in 1..Len(t) }

\* the cell visited k-th (k from 0) in row-major order, i outer and j inner
CellI(k) == k \div Cols

CellJ(k) == k % Cols

\* ---------------------------------------------------------------- C1
\* C1 (as stated): for rows >= 1 and cols >= 1, parametric_surface emits for
\* each cell (i, j) in row-major order the triples [tl, bl, tr], [tr, bl, br]
\* with bl = i*(cols+1)+j, br = bl+1, tl = (i+1)*(cols+1)+j, tr = tl+1.
C1_AsStated ==
    (Sampled /\ Rows >= 1 /\ Cols >= 1) =>
        /\ Len(surface.triangles) = 2 * Rows * Cols
        /\ \A k \in 0..(Rows * Cols - 1) :
              LET bl == CellI(k) * (Cols + 1) + CellJ(k)
                  br == bl + 1
                  tl == (CellI(k) + 1) * (Cols + 1) + CellJ(k)
                  tr == tl + 1
              IN  /\ surface.triangles[2 * k + 1] = <<tl, bl, tr>>
                  /\ surface.triangles[2 * k + 2] = <<tr, bl, br>>

\* C1 (amended): for rows >= 1 and cols >= 1, parametric_surface in surface.rs
\* emits for each cell (i, j) in row-major order exactly the two triples
\* [br, bl, tr] followed by [tr, bl, tl], with bl = i*(cols+1)+j, br = bl+1,
\* tl = (i+1)*(cols+1)+j, tr = tl+1 (the code calls bl+1 top_left and
\* (i+1)*(cols+1)+j bottom_right, since index i*(cols+1)+j has x-step i).
C1_Triangles ==
    (Sampled /\ Rows >= 1 /\ Cols >= 1) =>
        /\ Len(surface.triangles) = 2 * Rows * Cols
        /\ \A k \in 0..(Rows * Cols - 1) :
              LET bl == CellI(k) * (Cols + 1) + CellJ(k)
                  br == bl + 1
                  tl == (CellI(k) + 1) * (Cols + 1) + CellJ(k)
                  tr == tl + 1
              IN  /\ surface.triangles[2 * k + 1] = <<br, bl, tr>>
                  /\ surface.triangles[2 * k + 2] = <<tr, bl, tl>>

C1_Witness ==
    /\ Sampled
    /\ Rows >= 2
    /\ Cols >= 2
    /\ Rows # Cols
    /\ Len(surface.triangles) = 2 * Rows * Cols

\* ---------------------------------------------------------------- C2
IndicesValid(m) == \A k \in 1..Len(m.indices) : m.indices[k] < Len(m.positions)

\* C2: for count = [rx, ry] with rx >= 1 and ry >= 1, every index of every
\* triangle is strictly less than positions.len(), and every index of the
\* solid, wireframe and point-cloud index buffers is a valid vertex index.
C2_IndicesInRange ==
    (Sampled /\ Rows >= 1 /\ Cols >= 1) =>
        /\ \A k \in 1..Len(surface.triangles) : \A c \in 1..3 :
              surface.triangles[k][c] < Len(surface.positions)
        /\ IndicesValid(solid)
        /\ IndicesValid(wireframe)
        /\ IndicesValid(point_cloud)

C2_Witness ==
    /\ Sampled
    /\ Rows >= 2
    /\ Cols >= 1
    /\ \E k \in 1..Len(solid.indices) : solid.indices[k] = Len(surface.positions) - 1
    /\ \E k \in 1..Len(wireframe.indices) : wireframe.indices[k] = Len(surface.positions) - 1
    /\ \E k \in 1..Len(point_cloud.indices) : point_cloud.indices[k] = Len(surface.positions) - 1

\* ---------------------------------------------------------------- C3
PerNode(m, n) == Len(m.positions) = n /\ Len(m.normals) = n /\ Len(m.uvs) = n

\* C3: for count = [rx, ry] with rx >= 1 and ry >= 1, positions and normals
\* both have length (rx+1)*(ry+1), compute_uvs returns a list of that length,
\* and every mesh built from the Surface has one position, one normal and one
\* uv per grid node.
C3_Lengths ==
    (Sampled /\ Rows >= 1 /\ Cols >= 1) =>
        LET n == (Rows + 1) * (Cols + 1)
        IN  /\ Len(surface.positions) = n
            /\ Len(surface.normals) = n
            /\ Len(compute_uvs(surface, UvIdentity)) = n
            /\ Len(compute_uvs(surface, UvPoly(mero))) = n
            /\ solid # NoMesh => PerNode(solid, n)
            /\ wireframe # NoMesh => PerNode(wireframe, n)
            /\ point_cloud # NoMesh => PerNode(point_cloud, n)

C3_Witness ==
    /\ Sampled
    /\ Rows >= 1
    /\ Cols >= 2
    /\ Rows # Cols
    /\ solid # NoMesh
    /\ wireframe # NoMesh
    /\ point_cloud # NoMesh
    /\ Len(solid.uvs) = (Rows + 1) * (Cols + 1)

\* ---------------------------------------------------------------- C4
InvalidDomain(a) ==
    \/ a.start[1] = a.end[1]
    \/ a.start[2] = a.end[2]
    \/ a.count[1] = 0
    \/ a.count[2] = 0

\* C4: a call of parametric_surface with a degenerate domain or a zero
\* component in count reports InvalidDomain and returns no Surface, not even
\* a partial one: no positions, normals or triangles come out of the call.
C4_InvalidDomainRejected ==
    (app = "surface" /\ InvalidDomain(args)) =>
        /\ Len(surface.positions) = 0
        /\ Len(surface.normals) = 0
        /\ Len(surface.triangles) = 0
        /\ solid = NoMesh

\* ---------------------------------------------------------------- C5
CZero == Complex(FInt(0), FInt(0))

COne == Complex(FInt(1), FInt(0))

\* C6: for a Mero as created by Mero::new() (factor 1+0i, no zeros, no
\* poles), the evaluation at every point z gives the constant 1+0i, which
\* poly returns as the texture coordinate to_uv(1+0i) = (0, 1).
C6_EmptyMeroIsOne ==
    (mero.zeros = <<>> /\ mero.poles = <<>>) =>
        /\ mero.factor = COne
        /\ \A z \in EvalPoints :
              /\ poly_val(mero, z) = COne
              /\ poly(mero, z) = Vec2(FInt(0), FInt(1))
        /\ (solid # NoMesh /\ solid.uvs = compute_uvs(surface, UvPoly(mero))) =>
              \A k \in 1..Len(solid.uvs) : solid.uvs[k] = Vec2(FInt(0), FInt(1))

C6_Witness ==
    /\ Sampled
    /\ mero = Mero_new
    /\ solid # NoMesh
    /\ Len(solid.uvs) >= 4
    /\ \A k \in 1..Len(solid.uvs) : solid.uvs[k] = Vec2(FInt(0), FInt(1))
    /\ \A z \in EvalPoints : poly_val(mero, z) = COne

\* ---------------------------------------------------------------- C7
\* the index pairs of a line list, as undirected edges, with multiplicity
EdgeCount(indices, e) ==
    Cardinality({ k \in 1..(Len(indices) \div 2) : {indices[2 * k - 1], indices[2 * k]} = e })

EdgesOf(t) == { {t[1], t[2]}, {t[2], t[3]}, {t[3], t[1]} }

WireframeOf(triangles, indices) ==
    \A k \in 1..Len(triangles) :
        LET t == triangles[k]
        IN  SubSeq(indices, 6 * (k - 1) + 1, 6 * k) = <<t[1], t[2], t[2], t[3], t[3], t[1]>>

SharedEdgesTwice(triangles, indices) ==
    \A k \in 1..Len(triangles) : \A l \in 1..Len(triangles) :
        k # l => \A e \in EdgesOf(triangles[k]) \cap EdgesOf(triangles[l]) :
                    EdgeCount(indices, e) = 2

\* C7 (as stated): for count = [m, n] the wireframe index buffer is the
\* concatenation of a,b,b,c,c,a over the triangles and has length 6*m*n.
C7_AsStated ==
    (pc = "run" /\ wireframe # NoMesh) =>
        /\ WireframeOf(surface.triangles, wireframe.indices)
        /\ Len(wireframe.indices) = 6 * Rows * Cols

\* C7 (amended): for count = [m, n] (2*m*n triangles) the wireframe index
\* buffer is the concatenation, in triangle order, of a,b,b,c,c,a for each
\* triangle [a,b,c]; its length is exactly 12*m*n (6 per triangle), and an
\* edge shared by two triangles occurs twice.
C7_Wireframe ==
    (pc = "run" /\ wireframe # NoMesh) =>
        /\ Len(surface.triangles) = 2 * Rows * Cols
        /\ WireframeOf(surface.triangles, wireframe.indices)
        /\ Len(wireframe.indices) = 12 * Rows * Cols
        /\ SharedEdgesTwice(surface.triangles, wireframe.indices)

C7_Witness ==
    /\ Sampled
    /\ wireframe # NoMesh
    /\ Rows >= 2
    /\ Cols >= 2
    /\ Len(wireframe.indices) = 12 * Rows * Cols
    /\ \E k \in 1..Len(surface.triangles) : \E l \in 1..Len(surface.triangles) :
          k # l /\ EdgesOf(surface.triangles[k]) \cap EdgesOf(surface.triangles[l]) # {}

\* ---------------------------------------------------------------- C8
\* C8: whenever the sum of the four cross products at a grid node is the zero
\* vector, the normal stored for that node is the zero vector, not NaN.
C8_ZeroNormal ==
    Sampled =>
        LET sums == normal_sums(args.start, args.end, args.count, args.f)
        IN  \A k \in 1..Len(sums) :
                sums[k] = V3Zero => surface.normals[k] = V3Zero

\* ---------------------------------------------------------------- C9
\* vertex index v sits at grid point (v \div (cols+1), v % (cols+1))
GridI(v) == v \div (Cols + 1)

GridJ(v) == v % (Cols + 1)

\* twice the signed area of triangle t
Area2(t) ==
    (GridI(t[2]) - GridI(t[1])) * (GridJ(t[3]) - GridJ(t[1]))
        - (GridJ(t[2]) - GridJ(t[1])) * (GridI(t[3]) - GridI(t[1]))

\* C9: with the vertex of index i*(cols+1)+j at grid point (i, j), every
\* triangle has a non-zero signed area of one and the same sign, and the two
\* triangles of a cell share exactly the diagonal edge and together cover the
\* four corners of the cell (surface.rs and main.rs).
C9_Winding ==
    (pc = "run" /\ Rows >= 1 /\ Cols >= 1) =>
        /\ Len(surface.triangles) = 2 * Rows * Cols
        /\ \A k \in 1..Len(surface.triangles) :
              /\ Area2(surface.triangles[k]) # 0
              /\ Sgn(Area2(surface.triangles[k])) = Sgn(Area2(surface.triangles[1]))
        /\ \A k \in 0..(Rows * Cols - 1) :
              LET t1 == SeqSet(surface.triangles[2 * k + 1])
                  t2 == SeqSet(surface.triangles[2 * k + 2])
                  bl == CellI(k) * (Cols + 1) + CellJ(k)
                  tr == (CellI(k) + 1) * (Cols + 1) + CellJ(k) + 1
              IN  /\ t1 \cap t2 = {bl, tr}
                  /\ t1 \cup t2 = {bl, bl + 1, tr - 1, tr}
                  /\ Cardinality(t1) = 3
                  /\ Cardinality(t2) = 3

C9_Witness ==
    /\ Sampled
    /\ Rows >= 2
    /\ Cols >= 2
    /\ Rows # Cols
    /\ Len(surface.triangles) = 2 * Rows * Cols
    /\ Area2(surface.triangles[Len(surface.triangles)]) = Area2(surface.triangles[1])

\* ---------------------------------------------------------------- C10
\* C10: across Mero mutations interleaved with re-assemblies of the solid
\* mesh, the Surface's positions, normals and triangles never change, each
\* assembled mesh carries the Surface's positions and normals element for
\* element, and successive meshes differ in the uv buffer only.
C10_Reassembly ==
    [][ /\ pc = "run" =>
            /\ surface'.positions = surface.positions
            /\ surface'.normals = surface.normals
            /\ surface'.triangles = surface.triangles
        /\ solid' # NoMesh =>
            /\ solid'.positions = surface'.positions
            /\ solid'.normals = surface'.normals
            /\ Len(solid'.uvs) = Len(solid'.positions)
        /\ (solid # NoMesh /\ solid' # NoMesh) =>
            /\ solid'.positions = solid.positions
            /\ solid'.normals = solid.normals
            /\ solid'.indices = solid.indices
            /\ solid'.primitive_topology = solid.primitive_topology ]_vars

\* a mesh re-assembled after a mutation: it carries the uvs of the current,
\* non-empty Mero, which differ from those of the first assembly
C10_Witness ==
    /\ Sampled
    /\ Len(mero.zeros) >= 1
    /\ Len(mero.poles) >= 1
    /\ solid # NoMesh
    /\ solid.uvs = compute_uvs(surface, UvPoly(mero))
    /\ solid.uvs # compute_uvs(surface, UvPoly(Mero_new))
    /\ solid.positions = surface.positions
    /\ Len(solid.positions) >= 4

====
